---- MODULE Spec2Model ----
(***************************************************************************)
(* A model of ultrahuman-api-poller.py: the APIPoller object, its polling  *)
(* loop (run), the fetch (poll_api, print_debug_data) and the              *)
(* delete-then-write upsert into InfluxDB (store_data).                    *)
(*                                                                         *)
(* Time is counted in ticks of half a day: a day is DayLen ticks wide, so  *)
(* a day's window [midnight, midnight + 1 day) holds midnight and noon.    *)
(* The calendar is scaled down to one month of MaxDay days: a date string  *)
(* "2024-01-dd" is represented by its day-of-month number dd.              *)
(***************************************************************************)
EXTENDS Integers, Sequences, FiniteSets, TLC

\* ---------------------------------------------------------------- bounds
\* Days of the scaled-down month: valid day-of-month numbers are 1..MaxDay.
MaxDay == 2
\* Most (date, metrics) pairs in one response's daily_data.
MaxDates == 2
\* Metric values are the numbers 1..MaxVal.
MaxVal == 2
\* The wall clock runs from midnight of day 1 to tick MaxNow.
MaxNow == 9

\* ------------------------------------------------------------- constants
\* JSON null / Python None as a metric value.
NULL == 0
\* timedelta(days=1), in ticks.
DayLen == 2
\* The default of POLLING_INTERVAL.
DefaultInterval == 60

MetricNames == {"steps", "sleep_score"}
\* A field no response of the API carries: points written by something else.
OldFields == [resting_hr |-> 1]
EmptyMap == [n \in {} |-> NULL]

\* The four variables construction requires for the backend.
InfluxVars == {"INFLUX_URL", "INFLUX_TOKEN", "INFLUX_ORG", "INFLUX_BUCKET"}

VARIABLES
    env,              \* the process environment: [API_TOKEN, DEBUG_MODE, INFLUX, POLLING_INTERVAL]
    debug_mode,       \* self.debug_mode
    influx_client,    \* self.influx_client is not None
    interval_seconds, \* run's local interval_seconds
    pc,               \* where the process is
    exit,             \* "none" while running, "clean" (exit code 0), "uncaught" (traceback, nonzero)
    sig,              \* the pc at which KeyboardInterrupt was raised, "none" if it was not
    resp,             \* what the HTTP GET of this cycle met: [http, body], http "none" before it
    data,             \* what line 180 bound `data` to in this cycle
    idx,              \* position of the for loop of store_data in daily_data.items()
    err,              \* the exception store_data caught at line 165 in this cycle
    store,            \* the bucket's daily_metrics points: a set of [time, fields]
    calls,            \* the HTTP GET and backend calls issued in this cycle, in order
    last_sleep,       \* the argument of the last time.sleep call that returned (0: none yet)
    prev_cycle,       \* at the top of the loop: how the cycle before the sleep ended
    now,              \* the wall clock, what datetime.now() reads, in ticks
    yesterday,        \* get_api_url's local yesterday (line 68)
    api_url,          \* the dates of the URL get_api_url returned last: [start_date, end_date]
    url_pc,           \* where get_api_url is
    runs,             \* RerunSpec: the calls of store_data made on `data` so far
    first_store       \* RerunSpec: the bucket when the first of them had returned

run_vars == <<env, debug_mode, influx_client, interval_seconds, pc, exit, sig, resp,
              data, idx, err, store, calls, last_sleep, prev_cycle>>
url_vars == <<now, yesterday, api_url, url_pc>>
rerun_vars == <<runs, first_store>>
vars == <<run_vars, url_vars, rerun_vars>>

\* ------------------------------------------------------------ JSON values
\* A metrics value of daily_data: a JSON object (isdict) with its members, or
\* JSON null.
MetricMaps == {EmptyMap} \cup [MetricNames -> {NULL} \cup (1..MaxVal)]
Entries ==
    [date : 0..MaxDay, isdict : {TRUE}, metrics : MetricMaps]
    \cup [date : 0..MaxDay, isdict : {FALSE}, metrics : {EmptyMap}]

RECURSIVE DistinctDates(_)
DistinctDates(s) ==
    IF Len(s) <= 1 THEN TRUE
    ELSE /\ \A i \in 2..Len(s) : s[i].date /= s[1].date
         /\ DistinctDates(Tail(s))

\* daily_data: the (date, metrics) pairs in the order of the JSON text; the keys
\* of a JSON object parsed by response.json() are distinct.
DailyData ==
    {s \in UNION {[1..n -> Entries] : n \in 0..MaxDates} : DistinctDates(s)}

\* The shapes of a parsed body other than one with a data.daily_data object.
OddShapes == {"null", "number", "empty_object", "array", "no_data",
              "data_null", "data_number", "data_no_daily", "daily_null"}
Bodies ==
    [shape : OddShapes \cup {"invalid_json"}, daily : {<<>>}]
    \cup [shape : {"daily"}, daily : DailyData]
None == [shape |-> "None", daily |-> <<>>]
NoErr == [idx |-> 0, what |-> "none"]
NoResp == [http |-> "none", body |-> None]
NoCycle == [slept_at |-> "none", http |-> "none", err |-> "none"]
NoDate == -1
NoUrl == [start_date |-> NoDate, end_date |-> NoDate]

\* ------------------------------------------------------ Python's own rules
\* Line 182, `if data`: None, JSON null and an empty object are falsy. (The
\* model's "number" and "array" bodies are a nonzero number and a nonempty list.)
Truthy(d) == d.shape \notin {"None", "null", "empty_object"}

\* Lines 75 and 131, `'data' not in data or 'daily_data' not in data['data']`:
\* "raise" when `in` meets None or a number (TypeError: the body itself, or the
\* value of its 'data' member), "missing" when the condition is true, "present"
\* when it is false.
DailyPath(d) ==
    CASE d.shape \in {"None", "null", "number", "data_null", "data_number"} -> "raise"
      [] d.shape \in {"empty_object", "array", "no_data", "data_no_daily"} -> "missing"
      [] OTHER -> "present"

\* datetime.strptime(date, "%Y-%m-%d") raises ValueError for a day of the month
\* that does not exist ("2024-01-00"), and else gives midnight of that day.
StrptimeRaises(date) == date < 1 \/ date > MaxDay
\* Mutant of Strptime: midnight of the day after.
StrptimeNextDay(date) == (date + 1) * DayLen
Strptime(date) == date * DayLen

\* Mutant of PointFields: the test of line 159 left out.
PointFieldsAll(metrics) == metrics

\* Lines 158-160: the fields of the point, one per metric that is not None.
PointFields(metrics) ==
    [n \in {m \in DOMAIN metrics : metrics[m] /= NULL} |-> metrics[n]]

\* Lines 82-95 for one (date, metrics) pair: strptime raises on a bad date,
\* metrics.keys() raises on a non-object, max() raises on an empty sequence.
EntryPrintRaises(e) ==
    \/ StrptimeRaises(e.date)
    \/ ~e.isdict
    \/ DOMAIN e.metrics = {}

\* print_debug_data(data) raises.
PrintDebugRaises(d) ==
    \/ DailyPath(d) = "raise"
    \/ /\ DailyPath(d) = "present"
       /\ \/ d.shape = "daily_null"
          \/ \E i \in 1..Len(d.daily) : EntryPrintRaises(d.daily[i])

\* ------------------------------------------------------------ the backend
InWindow(p, start, stop) == start <= p.time /\ p.time < stop
PointsIn(points, start, stop) == {p \in points : InWindow(p, start, stop)}

\* Mutants of Delete: a window open at its start; only the point at start.
DeleteOpenWindow(points, start, stop) ==
    {p \in points : ~(start < p.time /\ p.time < stop)}
DeleteAtStart(points, start, stop) == {p \in points : p.time /= start}
\* Another: one point a call goes, the latest of the window.
DeleteLatest(points, start, stop) ==
    LET w == PointsIn(points, start, stop)
    IN  IF w = {} THEN points
        ELSE points \ {CHOOSE p \in w : \A q \in w : q.time <= p.time}

\* Another: stop taken for start, an empty window.
DeleteEmptyWindow(points, start, stop) == points \ PointsIn(points, start, start)

\* delete_api.delete(start, stop, '_measurement="daily_metrics"'): every point
\* of the measurement with start <= time < stop goes.
Delete(points, start, stop) == points \ PointsIn(points, start, stop)

\* write_api.write(record=point). InfluxDB keeps one point per (measurement,
\* tag set, time): a write at a time that holds a point adds its fields to that
\* point, replacing those of the same name. A point with no field has an empty
\* line protocol and stores nothing.
Merged(old, new) ==
    [n \in DOMAIN old \cup DOMAIN new |-> IF n \in DOMAIN new THEN new[n] ELSE old[n]]
Write(points, t, fields) ==
    IF DOMAIN fields = {} THEN points
    ELSE LET same == {p \in points : p.time = t}
         IN  (points \ same)
             \cup {[time |-> t,
                    fields |-> IF same = {} THEN fields
                               ELSE Merged((CHOOSE p \in same : TRUE).fields, fields)]}

GetCall == [op |-> "get", idx |-> 0, start |-> 0, stop |-> 0, fields |-> EmptyMap,
            ok |-> TRUE, removed |-> {}]
DeleteCall(i, t0, t1, ok, gone) ==
    [op |-> "delete", idx |-> i, start |-> t0, stop |-> t1, fields |-> EmptyMap,
     ok |-> ok, removed |-> gone]
WriteCall(i, t, f, ok) ==
    [op |-> "write", idx |-> i, start |-> t, stop |-> t, fields |-> f,
     ok |-> ok, removed |-> {}]

\* ------------------------------------------------------------------ Init
\* The bucket before the process starts: each day holds nothing, or one point
\* written by something else at midnight or at noon.
Times == {d * DayLen + o : d \in 1..MaxDay, o \in 0..(DayLen - 1)}
AtMostOnePerDay(points) ==
    \A d \in 1..MaxDay :
        Cardinality(PointsIn(points, d * DayLen, d * DayLen + DayLen)) <= 1
InitStores ==
    {{[time |-> t, fields |-> OldFields] : t \in T} : T \in {U \in SUBSET Times :
        AtMostOnePerDay({[time |-> t, fields |-> OldFields] : t \in U})}}

\* API_TOKEN in the environment: not there (os.environ.get gives None), there
\* and empty, there with a token.
Tokens == {"unset", "", "token"}

\* The environments explored: API_TOKEN unset, empty or set, DEBUG_MODE true or not, the
\* four backend variables all set, all but one, or none; POLLING_INTERVAL unset
\* (the default) and, with no backend variable set, also 5.
Envs ==
    {e \in [API_TOKEN : Tokens, DEBUG_MODE : BOOLEAN,
            INFLUX : {InfluxVars} \cup {InfluxVars \ {v} : v \in InfluxVars} \cup {{}},
            POLLING_INTERVAL : {DefaultInterval, 5}] :
        e.POLLING_INTERVAL = DefaultInterval \/ e.INFLUX = {}}

Init ==
    /\ env \in Envs
    /\ debug_mode = FALSE
    /\ influx_client = FALSE
    /\ interval_seconds = 0
    /\ pc = "construct"
    /\ exit = "none"
    /\ sig = "none"
    /\ resp = NoResp
    /\ data = None
    /\ idx = 0
    /\ err = NoErr
    /\ store \in InitStores
    /\ calls = <<>>
    /\ last_sleep = 0
    /\ prev_cycle = NoCycle
    /\ now = DayLen
    /\ yesterday = NoDate
    /\ api_url = NoUrl
    /\ url_pc = "line_68"
    /\ runs = 0
    /\ first_store = {}

\* --------------------------------------------------------------- actions
\* Spec holds the clock and the URL still: what the API answers does not depend
\* on the dates asked for. UrlSpec, below, is get_api_url under a running clock,
\* and RerunSpec is store_data called twice on one response.
\* Mutant of InfluxConfigured: any() for all().
InfluxConfiguredAny(e) == \E v \in InfluxVars : v \in e.INFLUX

\* Line 36: all([influx_url, influx_token, influx_org, influx_bucket]).
InfluxConfigured(e) == \A v \in InfluxVars : v \in e.INFLUX

\* Mutant of HasToken: `is not None` for truthiness.
HasTokenNotNone(e) == e.API_TOKEN /= "unset"

\* Line 22, `not self.api_token`: None and the empty string are falsy.
HasToken(e) == e.API_TOKEN \notin {"unset", ""}

\* APIPoller.__init__ (lines 10-55).
Construct ==
    /\ pc = "construct"
    /\ IF ~HasToken(env)
       THEN /\ pc' = "done"
            /\ exit' = "uncaught"
            /\ UNCHANGED <<debug_mode, influx_client>>
       ELSE /\ debug_mode' = env.DEBUG_MODE
            /\ influx_client' = InfluxConfigured(env)
            /\ pc' = "run"
            /\ exit' = exit
    /\ UNCHANGED <<env, interval_seconds, sig, resp, data, idx, err, store, calls, last_sleep,
                   prev_cycle>>
    /\ UNCHANGED <<url_vars, rerun_vars>>

\* run, lines 172-176.
RunStart ==
    /\ pc = "run"
    /\ interval_seconds' = env.POLLING_INTERVAL
    /\ pc' = "poll"
    /\ UNCHANGED <<env, debug_mode, influx_client, exit, sig, resp, data, idx, err,
                   store, calls, last_sleep, prev_cycle>>
    /\ UNCHANGED <<url_vars, rerun_vars>>

\* What poll_api (lines 98-121) does with the response r, body b: "None" (the
\* RequestException was caught at line 117), "raise" (an exception leaves
\* poll_api) or "data". requests.get raises on a transport error,
\* raise_for_status on a status that is not 2xx, and response.json() on a body
\* that is not JSON (requests.exceptions.JSONDecodeError): RequestExceptions all.
PollOutcome(r, b) ==
    IF r /= "status_200" \/ b.shape = "invalid_json" THEN "None"
    ELSE IF debug_mode /\ PrintDebugRaises(b) THEN "raise"
    ELSE "data"

\* Line 182: store_data is called.
StoreCalled(d) == Truthy(d) /\ influx_client

\* Mutant of AfterUnexpected: no except Exception clause, the process dies.
AfterUnexpectedDies == "done"

\* Lines 190-192: an exception that leaves poll_api is printed and the loop
\* sleeps inside the except clause.
AfterUnexpected == "sleep_err"

\* Line 180, data = self.poll_api(), and the test of line 182.
PollApi ==
    /\ pc = "poll"
    /\ \E r \in {"transport_error", "status_500", "status_200"} :
       \E b \in (IF r = "status_200" THEN Bodies ELSE {None}) :
          LET o == PollOutcome(r, b) IN
          /\ resp' = [http |-> r, body |-> b]
          /\ calls' = <<GetCall>>
          /\ data' = IF o = "data" THEN b ELSE None
          /\ pc' = IF o = "raise" THEN AfterUnexpected
                   ELSE IF o = "data" /\ StoreCalled(b) THEN "store_data"
                   ELSE "sleep"
    /\ idx' = 0
    /\ err' = NoErr
    /\ prev_cycle' = NoCycle
    /\ UNCHANGED <<env, debug_mode, influx_client, interval_seconds, exit, sig, store,
                   last_sleep>>
    /\ UNCHANGED <<url_vars, rerun_vars>>

\* Mutants of AfterStoreError: no except clause at line 165 and none in run, the
\* process dies; the loop goes round at once, with no sleep.
AfterStoreErrorDies == "done"
AfterStoreErrorRetries == "poll"

\* Where store_data goes after the exception of line 165 is caught: it prints
\* and returns to run, which sleeps (line 185).
AfterStoreError == "sleep"

\* Mutant of AfterPair: the next pair's delete left out.
AfterPairSkipsDelete(i) == IF i < Len(data.daily) THEN "write" ELSE "sleep"

\* Where the for loop of line 137 goes after the pair at position i.
AfterPair(i) == IF i < Len(data.daily) THEN "delete" ELSE "sleep"

\* store_data, lines 127-137: the tests before the loop.
StoreBegin ==
    /\ pc = "store_data"
    /\ IF ~influx_client \/ DailyPath(data) = "missing"
       THEN pc' = "sleep" /\ err' = err /\ idx' = idx
       ELSE IF DailyPath(data) = "raise" \/ data.shape = "daily_null"
       THEN pc' = AfterStoreError /\ err' = [idx |-> 0, what |-> "path"] /\ idx' = idx
       ELSE pc' = AfterPair(0) /\ err' = err /\ idx' = 1
    /\ UNCHANGED <<env, debug_mode, influx_client, interval_seconds, exit, sig, resp,
                   data, store, calls, last_sleep, prev_cycle>>
    /\ UNCHANGED <<url_vars, rerun_vars>>

\* store_data, lines 138-152: strptime and the delete of the day's window.
StoreDelete ==
    /\ pc = "delete"
    /\ LET e == data.daily[idx]
           t == Strptime(e.date)
       IN  IF StrptimeRaises(e.date)
           THEN /\ pc' = AfterStoreError
                /\ err' = [idx |-> idx, what |-> "date"]
                /\ UNCHANGED <<store, calls>>
           ELSE \E ok \in BOOLEAN :
                /\ calls' = Append(calls, DeleteCall(idx, t, t + DayLen, ok,
                                                    PointsIn(store, t, t + DayLen)))
                /\ IF ok
                   THEN /\ store' = Delete(store, t, t + DayLen)
                        /\ pc' = "write"
                        /\ err' = err
                   ELSE /\ store' = store
                        /\ pc' = AfterStoreError
                        /\ err' = [idx |-> idx, what |-> "delete"]
    /\ UNCHANGED <<env, debug_mode, influx_client, interval_seconds, exit, sig, resp,
                   data, idx, last_sleep, prev_cycle>>
    /\ UNCHANGED <<url_vars, rerun_vars>>

\* store_data, lines 154-163: the point and its write.
StoreWrite ==
    /\ pc = "write"
    /\ LET e == data.daily[idx]
           t == Strptime(e.date)
       IN  IF ~e.isdict
           THEN /\ pc' = AfterStoreError
                /\ err' = [idx |-> idx, what |-> "metrics"]
                /\ UNCHANGED <<store, calls, idx>>
           ELSE \E ok \in BOOLEAN :
                /\ calls' = Append(calls, WriteCall(idx, t, PointFields(e.metrics), ok))
                /\ IF ok
                   THEN /\ store' = Write(store, t, PointFields(e.metrics))
                        /\ pc' = AfterPair(idx)
                        /\ idx' = idx + 1
                        /\ err' = err
                   ELSE /\ store' = store
                        /\ pc' = AfterStoreError
                        /\ err' = [idx |-> idx, what |-> "write"]
                        /\ idx' = idx
    /\ UNCHANGED <<env, debug_mode, influx_client, interval_seconds, exit, sig, resp,
                   data, last_sleep, prev_cycle>>
    /\ UNCHANGED <<url_vars, rerun_vars>>

\* Mutant of SleepTime: the default, whatever POLLING_INTERVAL says.
SleepTimeDefault == DefaultInterval

\* Lines 185 and 192: time.sleep(interval_seconds) returns and the loop goes
\* round; line 180 rebinds data before it is read again.
SleepTime == interval_seconds
Sleep ==
    /\ pc \in {"sleep", "sleep_err"}
    /\ last_sleep' = SleepTime
    /\ prev_cycle' = [slept_at |-> pc, http |-> resp.http, err |-> err.what]
    /\ pc' = "poll"
    /\ resp' = NoResp
    /\ data' = None
    /\ idx' = 0
    /\ err' = NoErr
    /\ calls' = <<>>
    /\ UNCHANGED <<env, debug_mode, influx_client, interval_seconds, exit, sig, store>>
    /\ UNCHANGED <<url_vars, rerun_vars>>

\* How the process ends when KeyboardInterrupt is raised at pc p: inside the
\* try of lines 179-185 it is caught at line 187 and the loop breaks; anywhere
\* else (the constructor, lines 172-176, the sleep of line 192 inside the
\* except clause) nothing catches it.
InterruptExit(p) ==
    IF p \in {"poll", "store_data", "delete", "write", "sleep"} THEN "clean" ELSE "uncaught"

\* The bucket after a backend call was interrupted: the request may or may not
\* have reached the server.
InterruptedStores ==
    IF pc = "delete" /\ ~StrptimeRaises(data.daily[idx].date)
    THEN {store, Delete(store, Strptime(data.daily[idx].date),
                        Strptime(data.daily[idx].date) + DayLen)}
    ELSE IF pc = "write" /\ data.daily[idx].isdict
    THEN {store, Write(store, Strptime(data.daily[idx].date),
                       PointFields(data.daily[idx].metrics))}
    ELSE {store}

\* SIGINT: KeyboardInterrupt is raised wherever the process is, and the process
\* ends: its locals go with it (calls, the record of what it issued, stays).
Interrupt ==
    /\ pc /= "done"
    /\ sig' = pc
    /\ exit' = InterruptExit(pc)
    /\ pc' = "done"
    /\ store' \in InterruptedStores
    /\ data' = None
    /\ idx' = 0
    /\ err' = NoErr
    /\ resp' = NoResp
    /\ UNCHANGED <<env, debug_mode, influx_client, interval_seconds, calls, last_sleep,
                   prev_cycle>>
    /\ UNCHANGED <<url_vars, rerun_vars>>

Next ==
    \/ Construct
    \/ RunStart
    \/ PollApi
    \/ StoreBegin
    \/ StoreDelete
    \/ StoreWrite
    \/ Sleep
    \/ Interrupt

Spec == Init /\ [][Next]_vars

\* ------------------------------------------------- get_api_url and the clock
\* strftime('%Y-%m-%d'): the day a clock reading falls in, its time of day gone.
Strftime(t) == t \div DayLen

\* poll_api is at line 103 of its first cycle; the clock shows midnight or noon
\* of day 1.
UrlInit ==
    /\ env = [API_TOKEN |-> "token", DEBUG_MODE |-> FALSE, INFLUX |-> {},
              POLLING_INTERVAL |-> DefaultInterval]
    /\ debug_mode = FALSE
    /\ influx_client = FALSE
    /\ interval_seconds = DefaultInterval
    /\ pc = "poll"
    /\ exit = "none"
    /\ sig = "none"
    /\ resp = NoResp
    /\ data = None
    /\ idx = 0
    /\ err = NoErr
    /\ store = {}
    /\ calls = <<>>
    /\ last_sleep = 0
    /\ prev_cycle = NoCycle
    /\ now \in {DayLen, DayLen + 1}
    /\ yesterday = NoDate
    /\ api_url = NoUrl
    /\ url_pc = "line_68"
    /\ runs = 0
    /\ first_store = {}

\* Time passes: the clock moves on by a tick, wherever the program is.
Tick ==
    /\ now < MaxNow
    /\ now' = now + 1
    /\ UNCHANGED <<yesterday, api_url, url_pc, run_vars, rerun_vars>>

\* Line 68, get_yesterday_date (lines 61-62): the first reading of the clock.
GetYesterdayDate ==
    /\ url_pc = "line_68"
    /\ yesterday' = Strftime(now - DayLen)
    /\ url_pc' = "line_69"
    /\ UNCHANGED <<now, api_url, run_vars, rerun_vars>>

\* Line 69: the second reading of the clock, and the URL; the next cycle calls
\* get_api_url again.
GetApiUrl ==
    /\ url_pc = "line_69"
    /\ api_url' = [start_date |-> yesterday, end_date |-> Strftime(now)]
    /\ url_pc' = "line_68"
    /\ UNCHANGED <<now, yesterday, run_vars, rerun_vars>>

UrlNext ==
    \/ Tick
    \/ GetYesterdayDate
    \/ GetApiUrl

UrlSpec == UrlInit /\ [][UrlNext]_vars

\* ------------------------------------------- store_data, twice on one response
\* The bucket as anything may have left it: any points at midnight and noon.
AnyStores == {{[time |-> t, fields |-> OldFields] : t \in T} : T \in SUBSET Times}

\* Line 183 has just called store_data(data), the backend configured, on a
\* body that is truthy at line 182.
RerunInit ==
    /\ env = [API_TOKEN |-> "token", DEBUG_MODE |-> FALSE, INFLUX |-> InfluxVars,
              POLLING_INTERVAL |-> DefaultInterval]
    /\ debug_mode = FALSE
    /\ influx_client = TRUE
    /\ interval_seconds = DefaultInterval
    /\ pc = "store_data"
    /\ exit = "none"
    /\ sig = "none"
    /\ data \in {b \in Bodies : b.shape /= "invalid_json" /\ Truthy(b)}
    /\ resp = [http |-> "status_200", body |-> data]
    /\ idx = 0
    /\ err = NoErr
    /\ store \in AnyStores
    /\ calls = <<GetCall>>
    /\ last_sleep = 0
    /\ prev_cycle = NoCycle
    /\ now = DayLen
    /\ yesterday = NoDate
    /\ api_url = NoUrl
    /\ url_pc = "line_68"
    /\ runs = 1
    /\ first_store = {}

\* store_data(data) has returned with no backend call failed, and is called
\* once more on the same data; calls goes on as the log of both.
StoreAgain ==
    /\ pc = "sleep"
    /\ runs = 1
    /\ err.what \notin {"delete", "write"}
    /\ runs' = 2
    /\ first_store' = store
    /\ pc' = "store_data"
    /\ idx' = 0
    /\ err' = NoErr
    /\ UNCHANGED <<env, debug_mode, influx_client, interval_seconds, exit, sig, resp,
                   data, store, calls, last_sleep, prev_cycle, url_vars>>

RerunNext ==
    \/ StoreBegin
    \/ StoreDelete
    \/ StoreWrite
    \/ StoreAgain

RerunSpec == RerunInit /\ [][RerunNext]_vars

\* ------------------------------------------------------------ the claims
Running == pc /= "done"
\* store_data was called in this cycle and has returned.
StoreReturned == pc = "sleep" /\ StoreCalled(data)
NonNull(m) == {n \in DOMAIN m : m[n] /= NULL}
DayPoints(points, d) ==
    {p \in points : d * DayLen <= p.time /\ p.time < (d + 1) * DayLen}
IsCall(k, op) == k \in 1..Len(calls) /\ calls[k].op = op
\* The pair of daily_data the call at k was issued for.
PairOf(k) == data.daily[calls[k].idx]
\* The write at k follows a delete that removed a point an earlier store_data
\* call had written for the same date (its fields are metrics of the API).
Overwrites(k) ==
    /\ IsCall(k, "write") /\ calls[k].ok
    /\ IsCall(k - 1, "delete") /\ calls[k - 1].ok
    /\ \E q \in calls[k - 1].removed : DOMAIN q.fields \subseteq MetricNames
\* The day of the pair at k holds exactly the point of that pair's non-null metrics.
HoldsExactlyThePoint(k) ==
    \E p \in DayPoints(store, PairOf(k).date) :
        /\ DayPoints(store, PairOf(k).date) = {p}
        /\ DOMAIN p.fields = NonNull(PairOf(k).metrics)
        /\ \A n \in NonNull(PairOf(k).metrics) : p.fields[n] = PairOf(k).metrics[n]

\* C1 as stated: whenever store_data has deleted and written, both with success,
\* a date an earlier call had stored, the store holds exactly one point for that
\* date, and its fields are exactly the non-null metrics of this call.
C1_OverwriteAsStated ==
    Running => \A k \in 1..Len(calls) : Overwrites(k) => HoldsExactlyThePoint(k)

\* C1, amended: the same when this call's metrics have a non-null value; when
\* they have none, the store holds no point for that date.
C1_Overwrite ==
    Running =>
        \A k \in 1..Len(calls) :
            Overwrites(k) =>
                IF NonNull(PairOf(k).metrics) = {}
                THEN DayPoints(store, PairOf(k).date) = {}
                ELSE HoldsExactlyThePoint(k)

\* A second call has replaced a first call's point that had another value of
\* one metric and a metric the second call gives as null.
C1_Witness ==
    /\ pc = "sleep"
    /\ \E k \in 1..Len(calls) :
        /\ Overwrites(k)
        /\ \E q \in calls[k - 1].removed :
            /\ DOMAIN q.fields = MetricNames
            /\ NonNull(PairOf(k).metrics) = {"steps"}
            /\ q.fields["steps"] /= PairOf(k).metrics["steps"]
        /\ HoldsExactlyThePoint(k)

\* C2: when a store_data call has returned, whatever failed in it, no day holds
\* more than one daily_metrics point (the bucket starts with at most one a day).
C2_AtMostOnePointPerDay ==
    StoreReturned => \A d \in 1..MaxDay : Cardinality(DayPoints(store, d)) <= 1

\* A call that stored its first date and failed to delete the second, which
\* keeps the point it had.
C2_Witness ==
    /\ StoreReturned
    /\ err = [idx |-> 2, what |-> "delete"]
    /\ IsCall(3, "write") /\ calls[3].ok
    /\ \A d \in 1..MaxDay : Cardinality(DayPoints(store, d)) = 1

\* C3: when store_data has returned, every date of the response other than the
\* one whose processing failed has had its delete issued.
C3_OtherDatesStillProcessed ==
    (StoreReturned /\ data.shape = "daily") =>
        \A i \in 1..Len(data.daily) :
            (i /= err.idx /\ ~StrptimeRaises(data.daily[i].date)) =>
                \E k \in 1..Len(calls) : calls[k].op = "delete" /\ calls[k].idx = i

FetchFailed ==
    \/ resp.http \in {"transport_error", "status_500"}
    \/ resp.http = "status_200" /\ resp.body.shape = "invalid_json"
Malformed == resp.http = "status_200" /\ resp.body.shape \in OddShapes
DebugRaised == debug_mode /\ resp.http = "status_200" /\ PrintDebugRaises(resp.body)
BackendFailed == err.what \in {"delete", "write"}

\* C4: the process ends only on an interrupt (or a constructor that failed); a
\* cycle whose fetch failed, whose response was malformed, whose debug printing
\* raised or whose delete or write failed is at, or on its way to, a sleep; and
\* from a sleep the only step other than an interrupt is the return of
\* time.sleep(POLLING_INTERVAL) to the top of the loop, which can always be taken.
C4_CycleFailureNeverEndsTheProcess ==
    /\ [](/\ pc = "done" => (sig /= "none" \/ ~HasToken(env))
          /\ (FetchFailed \/ DebugRaised \/ BackendFailed) => pc \in {"sleep", "sleep_err"}
          /\ Malformed => pc \in {"store_data", "sleep", "sleep_err"}
          /\ pc \in {"sleep", "sleep_err"} => ENABLED Sleep)
    /\ [][/\ (pc = "store_data" /\ Malformed /\ sig' = "none") => pc' = "sleep"
          /\ (pc \in {"sleep", "sleep_err"} /\ sig' = "none") =>
                (pc' = "poll" /\ last_sleep' = env.POLLING_INTERVAL /\ exit' = "none")]_vars

\* The loop is at its top again after a cycle whose write failed.
C4_Witness ==
    /\ pc = "poll"
    /\ exit = "none"
    /\ prev_cycle.err = "write"
    /\ last_sleep = env.POLLING_INTERVAL

\* C5: no write call is issued for a pair whose metrics have no non-null value.
C5_NoWriteForEmptyMetrics ==
    Running => \A k \in 1..Len(calls) :
        calls[k].op = "write" => NonNull(PairOf(k).metrics) /= {}

\* C6: with one of the four INFLUX variables missing, no delete or write is ever
\* issued, store_data is never inside its loop, and it has raised nothing.
C6_UnconfiguredBackendUntouched ==
    (\E v \in InfluxVars : v \notin env.INFLUX) =>
        /\ \A k \in 1..Len(calls) : calls[k].op = "get"
        /\ pc \notin {"delete", "write"}
        /\ err = NoErr
        /\ ~influx_client

\* A cycle that fetched two dates ended with only INFLUX_BUCKET missing.
C6_Witness ==
    /\ env.INFLUX = InfluxVars \ {"INFLUX_BUCKET"}
    /\ pc = "sleep"
    /\ data.shape = "daily"
    /\ Len(data.daily) = 2
    /\ calls = <<GetCall>>

GetFailed == {"transport_error", "status_500"}
\* C7: the step in which the GET fails issues nothing but the GET, leaves the
\* store as it is and goes to the sleep; the store stays as it is until the
\* sleep of POLLING_INTERVAL seconds has returned to the top of the loop.
C7_FailedGetSkipsTheUpsert ==
    [][/\ resp'.http \in GetFailed =>
            (calls' = <<GetCall>> /\ data' = None /\ store' = store /\ pc' = "sleep")
       /\ (resp.http \in GetFailed /\ sig' = "none") =>
            (pc' = "poll" /\ last_sleep' = env.POLLING_INTERVAL /\ store' = store)]_vars

\* The loop is at its top again, backend configured, after a GET that met 500.
C7_Witness ==
    /\ pc = "poll"
    /\ influx_client
    /\ prev_cycle.http = "status_500"
    /\ prev_cycle.slept_at = "sleep"
    /\ last_sleep = env.POLLING_INTERVAL

\* C8: the point of a write for a pair with N >= 1 non-null metrics is at
\* midnight of the pair's date and has exactly N fields, those metrics with
\* their values; a write that succeeded has put that point in the store.
C8_PointCarriesTheNonNullMetrics ==
    Running => \A k \in 1..Len(calls) :
        (calls[k].op = "write" /\ NonNull(PairOf(k).metrics) /= {}) =>
            /\ calls[k].start = PairOf(k).date * DayLen
            /\ Cardinality(DOMAIN calls[k].fields) = Cardinality(NonNull(PairOf(k).metrics))
            /\ \A n \in DOMAIN PairOf(k).metrics :
                IF PairOf(k).metrics[n] = NULL
                THEN n \notin DOMAIN calls[k].fields
                ELSE n \in DOMAIN calls[k].fields
                     /\ calls[k].fields[n] = PairOf(k).metrics[n]
            /\ calls[k].ok =>
                [time |-> PairOf(k).date * DayLen, fields |-> calls[k].fields] \in store

\* {"steps": 1, "sleep_score": null} for day 1 was written as the point
\* (midnight of day 1, {steps: 1}).
C8_Witness ==
    \E k \in 1..Len(calls) :
        /\ Running
        /\ calls[k].op = "write" /\ calls[k].ok
        /\ PairOf(k).date = 1
        /\ PairOf(k).metrics = [steps |-> 1, sleep_score |-> NULL]
        /\ [time |-> DayLen, fields |-> [steps |-> 1]] \in store

\* C9: an interrupt during the fetch, the store, the sleep of line 185 or the
\* sleep of line 192 ends the process with exit code 0.
C9_InterruptExitsCleanly ==
    sig \in {"poll", "store_data", "delete", "write", "sleep", "sleep_err"} =>
        exit = "clean"

\* store_data, given body b with the backend configured, issues a call: b has
\* the data.daily_data path and its first date parses. A run with DEBUG_MODE
\* unset hands every parsed body to store_data (lines 110-115, 182).
IssuesCalls(b) ==
    /\ b.shape = "daily"
    /\ Len(b.daily) >= 1
    /\ ~StrptimeRaises(b.daily[1].date)

\* C10: a run with DEBUG_MODE set issues the calls a run without it issues on
\* the same responses and backend outcomes. store_data reads debug_mode only to
\* print (line 151), so the two runs differ exactly when one of them does not
\* hand store_data a body for which it issues calls: every such body that was
\* fetched is the data of the cycle, whatever debug_mode is.
C10_DebugHasNoEffect ==
    (resp.http = "status_200" /\ influx_client /\ IssuesCalls(resp.body)) =>
        data = resp.body

\* A parsed body without the data.daily_data path: no 'data' member, 'data' null
\* or a number, or no 'daily_data' member in 'data'.
LacksPath(b) ==
    b.shape \in {"empty_object", "no_data", "data_null", "data_number", "data_no_daily"}
FetchedNoPath == resp.http = "status_200" /\ LacksPath(resp.body)

\* C11: a cycle that fetched a body without the data.daily_data path has issued
\* the GET and nothing else, is in store_data or at a sleep with the process
\* alive, and no step of it, the fetch included, changes the store or, short of
\* an interrupt, ends the process.
C11_MissingPathStoresNothing ==
    /\ [](FetchedNoPath =>
            (calls = <<GetCall>> /\ pc \in {"store_data", "sleep", "sleep_err"}
             /\ exit = "none"))
    /\ [][(FetchedNoPath \/ FetchedNoPath') =>
            (store' = store /\ (sig' = "none" => pc' /= "done"))]_vars

\* store_data was handed {"data": null} with points in the bucket, caught the
\* TypeError of line 131 and returned.
C11_Witness ==
    /\ pc = "sleep"
    /\ influx_client
    /\ data.shape = "data_null"
    /\ err.what = "path"
    /\ calls = <<GetCall>>
    /\ store /= {}

\* C12: every URL get_api_url has built asks for yesterday through today:
\* start_date is the day before end_date.
C12_StartIsTheDayBeforeEnd ==
    api_url /= NoUrl => api_url.start_date = api_url.end_date - 1

\* C13: with API_TOKEN unset or empty the process is in the constructor or has
\* ended: it has sent no GET, created no backend client, issued no delete and no
\* write, never entered the loop, never changes the store, and when it has ended
\* it has ended with a nonzero exit code.
C13_NoTokenNoAction ==
    /\ [](env.API_TOKEN \in {"unset", ""} =>
            /\ pc \in {"construct", "done"}
            /\ calls = <<>> /\ resp = NoResp
            /\ ~influx_client
            /\ last_sleep = 0
            /\ pc = "done" => exit = "uncaught")
    /\ [][env.API_TOKEN \in {"unset", ""} => store' = store]_vars

\* The constructor has failed on an empty API_TOKEN, the four INFLUX variables
\* set and points in the bucket.
C13_Witness ==
    /\ pc = "done"
    /\ sig = "none"
    /\ exit = "uncaught"
    /\ env.API_TOKEN = ""
    /\ env.INFLUX = InfluxVars
    /\ store /= {}

\* C14: when an interrupt has ended the process inside store_data, every date
\* whose delete had returned has had its write issued: the interrupt did not
\* come between a date's delete and its write.
C14_InterruptNeverMidWrite ==
    sig \in {"store_data", "delete", "write"} =>
        \A k \in 1..Len(calls) :
            (calls[k].op = "delete" /\ calls[k].ok) =>
                \E j \in (k + 1)..Len(calls) :
                    calls[j].op = "write" /\ calls[j].idx = calls[k].idx

\* C15: when store_data has returned from its second call on the same response,
\* no delete or write having failed in either call, the store is exactly what
\* the first call left.
C15_UpsertIdempotent ==
    (runs = 2 /\ pc = "sleep" /\ err.what \notin {"delete", "write"}) =>
        store = first_store

\* Both calls went through two dates; the first removed a stored point and both
\* wrote a point with a field.
C15_Witness ==
    /\ runs = 2 /\ pc = "sleep" /\ err = NoErr
    /\ Len(calls) = 9
    /\ calls[2].removed /= {}
    /\ DOMAIN calls[3].fields /= {}
    /\ calls[6].removed /= {}
    /\ store = first_store

\* The call at k is the delete of the whole day of the pair it was issued for.
DeletesTheDay(k) ==
    /\ calls[k].op = "delete"
    /\ calls[k].start = Strptime(PairOf(k).date)
    /\ calls[k].stop = Strptime(PairOf(k).date) + DayLen

\* C16: in the calls of a cycle, after the GET: each write comes directly after
\* the delete of its own date, which had returned; that delete is of the window
\* [midnight, midnight + 1 day) of the date; each delete comes directly after
\* the GET or after the write of the date before it, which had returned; a call
\* that failed is the last; and a write carries the one point of its date, at
\* midnight.
C16_DeleteThenWritePerDate ==
    Running =>
        \A k \in 2..Len(calls) :
            /\ calls[k].op \in {"delete", "write"}
            /\ calls[k].idx \in 1..Len(data.daily)
            /\ calls[k].op = "write" =>
                /\ DeletesTheDay(k - 1) /\ calls[k - 1].ok
                /\ calls[k - 1].idx = calls[k].idx
                /\ calls[k].start = Strptime(PairOf(k).date)
                /\ calls[k].fields = PointFields(PairOf(k).metrics)
            /\ calls[k].op = "delete" =>
                /\ DeletesTheDay(k)
                /\ \/ k = 2 /\ calls[1].op = "get"
                   \/ /\ calls[k - 1].op = "write" /\ calls[k - 1].ok
                      /\ calls[k - 1].idx < calls[k].idx
            /\ ~calls[k].ok => k = Len(calls)

\* Two dates were stored: GET, delete, write, delete, write, no call failed.
C16_Witness ==
    /\ pc = "sleep"
    /\ Len(calls) = 5
    /\ calls[4].op = "delete" /\ calls[4].idx = 2
    /\ calls[5].op = "write" /\ calls[5].ok
    /\ calls[2].removed /= {}

CallsOf(op, i) == {k \in 1..Len(calls) : calls[k].op = op /\ calls[k].idx = i}
Sleeping == pc \in {"sleep", "sleep_err"}

\* C17: the calls of a cycle hold one GET at most and, for each date of the
\* response, one delete and one write at most, whatever failed; a GET is issued
\* only at the top of the loop; the top of the loop is reached only from the
\* start of run or by the return of one time.sleep(interval_seconds); and from
\* the top of the loop the only step, short of an interrupt, is the GET: so one
\* sleep, no more and no less, lies between two GETs.
C17_NoRetryWithinACycle ==
    /\ [](/\ Cardinality(CallsOf("get", 0)) <= 1
          /\ \A i \in 1..MaxDates :
                Cardinality(CallsOf("delete", i)) <= 1 /\ Cardinality(CallsOf("write", i)) <= 1)
    /\ [][/\ (calls' /= calls /\ calls' /= <<>> /\ calls'[Len(calls')].op = "get") =>
                pc = "poll"
          /\ (pc' = "poll" /\ pc /= "poll") =>
                \/ pc = "run"
                \/ Sleeping /\ last_sleep' = interval_seconds /\ calls' = <<>>
          /\ (Sleeping /\ sig' = "none") => pc' = "poll"
          /\ (pc = "poll" /\ sig' = "none") => (calls' = <<GetCall>> /\ pc' /= "poll")]_vars

\* The loop is at its top again after a cycle whose delete failed and was not
\* tried again.
C17_Witness ==
    /\ pc = "poll"
    /\ exit = "none"
    /\ prev_cycle = [slept_at |-> "sleep", http |-> "status_200", err |-> "delete"]
    /\ last_sleep = interval_seconds
    /\ calls = <<>>

LastCall == calls[Len(calls)]

\* C18: every write comes directly after a delete of its own date that
\* succeeded; when store_data has caught a failed delete, that delete is its
\* last call, no write was issued for its date and the date holds the points it
\* held when the delete was issued; when it has caught a failed write, the date
\* holds no point.
C18_WriteOnlyAfterItsDelete ==
    Running =>
        /\ \A k \in 1..Len(calls) :
              calls[k].op = "write" =>
                  /\ IsCall(k - 1, "delete") /\ calls[k - 1].ok
                  /\ calls[k - 1].idx = calls[k].idx
        /\ err.what = "delete" =>
              /\ LastCall.op = "delete" /\ ~LastCall.ok /\ LastCall.idx = err.idx
              /\ CallsOf("write", err.idx) = {}
              /\ DayPoints(store, data.daily[err.idx].date) = LastCall.removed
        /\ err.what = "write" =>
              /\ LastCall.op = "write" /\ ~LastCall.ok /\ LastCall.idx = err.idx
              /\ DayPoints(store, data.daily[err.idx].date) = {}

\* The delete of a date removed its stored point, the write failed, and the
\* cycle ended with no point for the date.
C18_Witness ==
    /\ pc = "sleep"
    /\ err.what = "write"
    /\ calls[Len(calls) - 1].removed /= {}
    /\ DayPoints(store, data.daily[err.idx].date) = {}

\* Day d is a key of the daily_data store_data was handed.
Named(d) == \E i \in 1..Len(data.daily) : data.daily[i].date = d

\* C19: no step of store_data, an interrupted one included, changes the points
\* of a day that is not a key of daily_data.
C19_OnlyNamedDaysChange ==
    [][(pc \in {"store_data", "delete", "write"}) =>
          (\A d \in 1..MaxDay :
              ~Named(d) => DayPoints(store', d) = DayPoints(store, d))]_vars

\* store_data replaced the point of day 1, the one date of the response, and
\* day 2 holds the point it held, at noon.
C19_Witness ==
    /\ pc = "sleep"
    /\ Len(data.daily) = 1 /\ data.daily[1].date = 1
    /\ Len(calls) = 3
    /\ calls[2].removed /= {}
    /\ calls[3].ok /\ DOMAIN calls[3].fields /= {}
    /\ DayPoints(store, 2) = {[time |-> 2 * DayLen + 1, fields |-> OldFields]}

====
